---- MODULE Spec2Model ----
(***************************************************************************)
(* Model of src/systemd/dbus.rs of systemd-manager: the D-Bus front end    *)
(* that lists systemd unit files, decodes the textual (Debug) rendering of *)
(* the reply into SystemdUnit values, filters them, and enables, disables, *)
(* starts and stops one unit.                                              *)
(*                                                                         *)
(* Strings whose contents the code inspects (paths, names, the Debug text  *)
(* of a reply) are sequences of one-character strings.  Messages built by  *)
(* format! are kept as the sequence of their parts.                        *)
(***************************************************************************)
EXTENDS Integers, Sequences, FiniteSets, TLC

VARIABLES
    daemon,   \* the daemon's unit-file table: path -> state string
    held,     \* the SystemdUnit value the caller holds from a listing, or NoUnit
    status,   \* "running", or "aborted" once a panic has ended the program
    input,    \* the argument of the pure function under check (decoder, filters)
    last      \* the call that has just returned: operation, calls sent, reply, result

vars == <<daemon, held, status, input, last>>

(***************************************************************************)
(* Characters and strings.                                                 *)
(***************************************************************************)

\* The printable ASCII characters in code order, from 32 (space) to 126
\* (the grave accent, code 96, which no string of the model holds, by name).
ASCII ==
    <<" ", "!", "\"", "#", "$", "%", "&", "'", "(", ")", "*", "+", ",", "-", ".", "/",
      "0", "1", "2", "3", "4", "5", "6", "7", "8", "9", ":", ";", "<", "=", ">", "?",
      "@", "A", "B", "C", "D", "E", "F", "G", "H", "I", "J", "K", "L", "M", "N", "O",
      "P", "Q", "R", "S", "T", "U", "V", "W", "X", "Y", "Z", "[", "\\", "]", "^", "_",
      "grave", "a", "b", "c", "d", "e", "f", "g", "h", "i", "j", "k", "l", "m", "n", "o",
      "p", "q", "r", "s", "t", "u", "v", "w", "x", "y", "z", "{", "|", "}", "~">>

\* Position of a character in ASCII (its code minus 31).
Position == [c \in {ASCII[i] : i \in 1..Len(ASCII)} |-> CHOOSE i \in 1..Len(ASCII) : ASCII[i] = c]

Ord(c) == Position[c]

\* char::to_lowercase on ASCII: 'A'..'Z' (positions 34..59) move 32 places up.
LowerChar(c) ==
    LET i == Ord(c) IN IF i >= 34 /\ i <= 59 THEN ASCII[i + 32] ELSE c

\* str::to_lowercase
to_lowercase(s) == [i \in 1..Len(s) |-> LowerChar(s[i])]

\* The least element of a non-empty set of numbers.
Min(S) == CHOOSE i \in S : \A j \in S : i <= j

\* Ordering::Less of str::cmp: lexicographic by character code, a proper
\* prefix before the longer string.
StrLess(a, b) ==
    LET n == IF Len(a) < Len(b) THEN Len(a) ELSE Len(b)
        differ == {i \in 1..n : a[i] # b[i]}
    IN IF differ = {} THEN Len(a) < Len(b)
       ELSE Ord(a[Min(differ)]) < Ord(b[Min(differ)])

\* str::ends_with
ends_with(s, suffix) ==
    /\ Len(suffix) <= Len(s)
    /\ SubSeq(s, Len(s) - Len(suffix) + 1, Len(s)) = suffix

\* Iterator::skip(n) and Iterator::take(n) on the characters of a string.
Skip(s, n) == IF n >= Len(s) THEN <<>> ELSE SubSeq(s, n + 1, Len(s))

Take(s, n) == IF n >= Len(s) THEN s ELSE SubSeq(s, 1, n)

\* Iterator::take_while(|x| *x != '"')
TakeUntilQuote(s) ==
    LET quotes == {i \in 1..Len(s) : s[i] = "\""} IN
    IF quotes = {} THEN s ELSE SubSeq(s, 1, Min(quotes) - 1)

\* str::split(c): the pieces between the occurrences of c, empty ones kept.
Split(s, c) ==
    LET at == {i \in 1..Len(s) : s[i] = c}
        n == Cardinality(at)
        \* the position of the k-th occurrence of c; 0 before the first, and
        \* one past the end after the last
        pos(k) == IF k = 0 THEN 0
                  ELSE IF k > n THEN Len(s) + 1
                  ELSE CHOOSE i \in at : Cardinality({j \in at : j < i}) = k - 1
    IN [k \in 1..(n + 1) |-> SubSeq(s, pos(k - 1) + 1, pos(k) - 1)]

\* Concatenation of a sequence of strings, sep between neighbours.
RECURSIVE Join(_, _)
Join(parts, sep) ==
    IF parts = <<>> THEN <<>>
    ELSE IF Len(parts) = 1 THEN parts[1]
    ELSE parts[1] \o sep \o Join(Tail(parts), sep)

(***************************************************************************)
(* dbus::MessageItem and its derived Debug rendering, format!("{:?}", ..). *)
(***************************************************************************)

Bool(b) == [t |-> "Bool", b |-> b]

Str(s) == [t |-> "Str", s |-> s]

Struct(v) == [t |-> "Struct", v |-> v]

\* An array carries its items and the signature of its element type.
Array(v, sig) == [t |-> "Array", v |-> v, sig |-> sig]

ObjectPath(p) == [t |-> "ObjectPath", p |-> p]

\* Debug of str: the text between double quotes, '"' and '\' escaped by '\'.
RECURSIVE EscapeDebug(_)
EscapeDebug(s) ==
    IF s = <<>> THEN <<>>
    ELSE (IF Head(s) = "\"" \/ Head(s) = "\\" THEN <<"\\", Head(s)>> ELSE <<Head(s)>>)
         \o EscapeDebug(Tail(s))

DebugStr(s) == <<"\"">> \o EscapeDebug(s) \o <<"\"">>

DebugBool(b) == IF b THEN <<"t", "r", "u", "e">> ELSE <<"f", "a", "l", "s", "e">>

RECURSIVE DebugItem(_), DebugItems(_)
\* Debug of one MessageItem: Variant(fields, ...).
DebugItem(it) ==
    CASE it.t = "Bool" -> <<"B", "o", "o", "l", "(">> \o DebugBool(it.b) \o <<")">>
      [] it.t = "Str" -> <<"S", "t", "r", "(">> \o DebugStr(it.s) \o <<")">>
      [] it.t = "Struct" ->
            <<"S", "t", "r", "u", "c", "t", "(">> \o DebugItems(it.v) \o <<")">>
      [] it.t = "Array" ->
            <<"A", "r", "r", "a", "y", "(">> \o DebugItems(it.v) \o <<",", " ">>
            \o DebugStr(it.sig) \o <<")">>

\* Debug of Vec<MessageItem>: [a, b, ...].
DebugItems(items) ==
    <<"[">> \o Join([i \in 1..Len(items) |-> DebugItem(items[i])], <<",", " ">>)
    \o <<"]">>

(***************************************************************************)
(* The daemon's side of ListUnitFiles: one (path, state) struct per unit   *)
(* file, in an order the daemon chooses.                                   *)
(***************************************************************************)

SigSS == <<"(", "s", "s", ")">>

SigSSS == <<"(", "s", "s", "s", ")">>

\* The reply listing the unit files of table in the order of paths.
ListReply(table, paths) ==
    <<Array([i \in 1..Len(paths) |-> Struct(<<Str(paths[i]), Str(table[paths[i]])>>)],
            SigSS)>>

\* All orders of a finite set, as sequences.
Orders(S) ==
    {f \in [1..Cardinality(S) -> S] : \A i, j \in 1..Cardinality(S) : f[i] = f[j] => i = j}

(***************************************************************************)
(* SystemdUnit and its classifier (UnitType::new, UnitState::new).         *)
(***************************************************************************)

NoUnit == [name |-> <<>>, path |-> <<>>, state |-> "None", utype |-> "None"]

SystemdUnit(name, path, state, utype) ==
    [name |-> name, path |-> path, state |-> state, utype |-> utype]

\* UnitType::new: the type the file extension of the path names.
UnitType_new(path) ==
    CASE ends_with(path, <<".", "s", "e", "r", "v", "i", "c", "e">>) -> "Service"
      [] ends_with(path, <<".", "s", "o", "c", "k", "e", "t">>) -> "Socket"
      [] ends_with(path, <<".", "t", "i", "m", "e", "r">>) -> "Timer"
      [] ends_with(path, <<".", "a", "u", "t", "o", "m", "o", "u", "n", "t">>) -> "Automount"
      [] ends_with(path, <<".", "m", "o", "u", "n", "t">>) -> "Mount"
      [] ends_with(path, <<".", "t", "a", "r", "g", "e", "t">>) -> "Target"
      [] ends_with(path, <<".", "d", "e", "v", "i", "c", "e">>) -> "Device"
      [] ends_with(path, <<".", "p", "a", "t", "h">>) -> "Path"
      [] ends_with(path, <<".", "s", "n", "a", "p", "s", "h", "o", "t">>) -> "Snapshot"
      [] OTHER -> "Unknown"

\* The state text of a state token  Str("enabled")]) : what follows its first quote.
RawStateText(token) ==
    TakeUntilQuote(Skip(token, Len(TakeUntilQuote(token)) + 1))

\* UnitState::new: the state the first character of the state text names.
UnitState_new(token) ==
    LET raw == RawStateText(token) IN
    IF raw = <<>> THEN "Unknown"
    ELSE CASE raw[1] = "e" -> "Enabled"
           [] raw[1] = "d" -> "Disabled"
           [] raw[1] = "s" -> "Static"
           [] raw[1] = "m" -> "Masked"
           [] OTHER -> "Unknown"

(***************************************************************************)
(* parse_message: the decoder of the Debug text of a ListUnitFiles reply.  *)
(***************************************************************************)

\* "The first seven characters and last ten characters must be removed."
PrefixLen == 7

FramingLen == 17

\* "Skip the first fourteen characters" of a path token.
PathSkip == 14

\* Path::file_name: the last component unless there is none or it is "..";
\* empty components and "." are not components.  <<>> stands for None: a
\* component is never empty.
file_name(path) ==
    LET cs == SelectSeq(Split(path, "/"), LAMBDA c : c # <<>> /\ c # <<".">>) IN
    IF cs = <<>> \/ cs[Len(cs)] = <<".", ".">> THEN <<>> ELSE cs[Len(cs)]

\* The payloads `message` can be for an input: count - 17 is computed in usize,
\* so below 17 characters the subtraction overflows: a panic where overflow is
\* checked, a wrap to a huge count (take(..) then takes everything) where not.
StripFraming(text) ==
    IF Len(text) >= FramingLen
    THEN {[kind |-> "text", text |-> Take(Skip(text, PrefixLen), Len(text) - FramingLen)]}
    ELSE {[kind |-> "panic"], [kind |-> "text", text |-> Skip(text, PrefixLen)]}

\* One turn of the while-let loop: the unit of a (path, state) token pair.
DecodePair(pathToken, stateToken) ==
    LET path == TakeUntilQuote(Skip(pathToken, PathSkip)) IN
    SystemdUnit(file_name(path), path, UnitState_new(stateToken), UnitType_new(path))

\* The loop: tokens are taken two at a time until either is missing.
DecodeTokens(tokens) ==
    [i \in 1..(Len(tokens) \div 2) |-> DecodePair(tokens[2 * i - 1], tokens[2 * i])]

\* A sort key that keeps the case of the name.
sort_key_raw(unit) == unit.name

\* The key of the sort's comparison.
sort_key(unit) == to_lowercase(unit.name)

\* quickersort::sort_by: the vector rearranged so that no unit compares
\* greater than a later one; which of the rearrangements is not specified.
sort_by(units) ==
    LET n == Len(units)
        key == [i \in 1..n |-> sort_key(units[i])]
    IN {[i \in 1..n |-> units[f[i]]] :
           f \in {g \in Orders(1..n) :
                    \A i \in 1..(n - 1) : ~StrLess(key[g[i + 1]], key[g[i]])}}

\* The units pushed before the sort, or the panic of file_name().unwrap().
DecodeUnits(message) ==
    LET units == DecodeTokens(Split(message, ",")) IN
    IF \E i \in 1..Len(units) : units[i].name = <<>>
    THEN [kind |-> "panic"]
    ELSE [kind |-> "units", units |-> units]

\* The outcomes of parse_message(input): a panic, or a returned vector.
parse_message(text) ==
    UNION {IF m.kind = "panic" THEN {[kind |-> "panic"]}
           ELSE LET d == DecodeUnits(m.text) IN
                IF d.kind = "panic" THEN {d}
                ELSE {[kind |-> "units", units |-> u] : u \in sort_by(d.units)}
           : m \in StripFraming(text)}

(***************************************************************************)
(* The bus: dbus_message! and dbus_connect!.                               *)
(***************************************************************************)

\* The wait for a reply, in milliseconds.
Timeout == 4000

\* dbus_message!: a method call addressed to systemd's manager object.
dbus_message(function) ==
    [dest |-> "org.freedesktop.systemd1", node |-> "/org/freedesktop/systemd1",
     interface |-> "org.freedesktop.systemd1.Manager", method |-> function,
     args |-> <<>>]

\* Message::append_items
append_items(message, items) == [message EXCEPT !.args = @ \o items]

NoError == [name |-> "none", message |-> <<>>]

\* What the bus does with one call: the connection cannot be opened, no reply
\* comes within the timeout, the daemon replies with an error, or it replies.
NoConnection == [kind |-> "noconn", err |-> NoError, items |-> <<>>]

NoReply ==
    [kind |-> "err", items |-> <<>>,
     err |-> [name |-> "org.freedesktop.DBus.Error.NoReply",
              message |-> <<"t", "i", "m", "e", "d", " ", "o", "u", "t">>]]

ErrorReply ==
    [kind |-> "err", items |-> <<>>,
     err |-> [name |-> "org.freedesktop.DBus.Error.AccessDenied",
              message |-> <<"a", "c", "c", "e", "s", "s", " ", "d", "e", "n", "i", "e", "d">>]]

Reply(items) == [kind |-> "ok", err |-> NoError, items |-> items]

Failures == {NoConnection, NoReply, ErrorReply}

\* dbus_connect! with a retry: after Err(error) the message is sent once more.
dbus_connect_retry(message, outcome) ==
    IF outcome.kind = "noconn"
    THEN [sent |-> <<>>, kind |-> "panic", err |-> NoError, items |-> <<>>]
    ELSE [sent |-> IF outcome.kind = "ok"
                   THEN <<[message |-> message, timeout |-> Timeout]>>
                   ELSE <<[message |-> message, timeout |-> Timeout],
                          [message |-> message, timeout |-> Timeout]>>,
          kind |-> IF outcome.kind = "ok" THEN "Ok" ELSE "Err",
          err |-> outcome.err, items |-> outcome.items]

\* dbus_connect!: Connection::get_private(..).unwrap() panics when the bus
\* cannot be reached, before anything is sent; otherwise the message is sent
\* once and send_with_reply_and_block gives Ok(reply) or Err(error).
dbus_connect(message, outcome) ==
    IF outcome.kind = "noconn"
    THEN [sent |-> <<>>, kind |-> "panic", err |-> NoError, items |-> <<>>]
    ELSE [sent |-> <<[message |-> message, timeout |-> Timeout]>>,
          kind |-> IF outcome.kind = "ok" THEN "Ok" ELSE "Err",
          err |-> outcome.err, items |-> outcome.items]

\* The text of a dbus::Error in a message.
ErrorText(err) == err.message

(***************************************************************************)
(* Results.  msg is the message of Ok(..) or Err(..), b the value of a     *)
(* bool, units a returned vector.                                          *)
(***************************************************************************)

Result(kind, msg, b, units) == [kind |-> kind, msg |-> msg, b |-> b, units |-> units]

Ok(msg) == Result("Ok", msg, FALSE, <<>>)

Err(msg) == Result("Err", msg, FALSE, <<>>)

Panic == Result("panic", <<>>, FALSE, <<>>)

Value(b) == Result("bool", <<>>, b, <<>>)

Vec(units) == Result("Vec", <<>>, FALSE, units)

\* A finished call: the operation, the unit it was called on, the messages it
\* sent, what the bus answered, the vector list_unit_files decoded, the result.
Call(op, self, c, outcome, listing, result) ==
    [op |-> op, self |-> self, sent |-> c.sent, outcome |-> outcome,
     listing |-> listing, result |-> result]

NoCall ==
    [op |-> "none", self |-> NoUnit, sent |-> <<>>, outcome |-> NoConnection,
     listing |-> <<>>, result |-> Panic]

(***************************************************************************)
(* list_unit_files and impl Dbus for SystemdUnit.                          *)
(***************************************************************************)

\* list_unit_files: .expect(..) panics on Err; the reply's Debug text is decoded.
list_unit_files(outcome) ==
    LET c == dbus_connect(dbus_message("ListUnitFiles"), outcome) IN
    IF c.kind # "Ok"
    THEN {Call("list_unit_files", NoUnit, c, outcome, <<>>, Panic)}
    ELSE {IF p.kind = "panic"
          THEN Call("list_unit_files", NoUnit, c, outcome, <<>>, Panic)
          ELSE Call("list_unit_files", NoUnit, c, outcome, p.units, Vec(p.units))
          : p \in parse_message(DebugItems(c.items))}

\* Iterator::find(|unit| &unit.path == &self.path): the first match, 0 for None.
find_path(units, path) ==
    IF \E i \in 1..Len(units) : units[i].path = path
    THEN CHOOSE i \in 1..Len(units) :
            /\ units[i].path = path
            /\ \A j \in 1..(i - 1) : units[j].path # path
    ELSE 0

\* is_enabled answering from the state recorded in the unit it is called on.
enabled_in_cached(units, self) == self.state = "Enabled"

\* The unit state is_enabled reads: that of the unit found in the fresh listing.
enabled_in(units, self) ==
    LET i == find_path(units, self.path) IN
    IF i = 0 THEN FALSE ELSE units[i].state = "Enabled"

is_enabled(self, outcome) ==
    {IF l.result.kind = "panic"
     THEN [l EXCEPT !.op = "is_enabled", !.self = self]
     ELSE [l EXCEPT !.op = "is_enabled", !.self = self,
                    !.result = Value(enabled_in(l.listing, self))]
     : l \in list_unit_files(outcome)}

\* An "already enabled" text that looks for Bool(false).
AlreadyEnabledTextWrongBool ==
    <<"[", "B", "o", "o", "l", "(", "f", "a", "l", "s", "e", ")", ",", " ", "A", "r",
      "r", "a", "y", "(", "[", "]", ",", " ", "\"", "(", "s", "s", "s", ")", "\"", ")",
      "]">>

\* The Debug text that enable takes for "already enabled".
AlreadyEnabledText ==
    <<"[", "B", "o", "o", "l", "(", "t", "r", "u", "e", ")", ",", " ", "A", "r", "r",
      "a", "y", "(", "[", "]", ",", " ", "\"", "(", "s", "s", "s", ")", "\"", ")", "]">>

\* An "already disabled" text with the signature of the listing's array.
AlreadyDisabledTextWrongSig ==
    <<"[", "A", "r", "r", "a", "y", "(", "[", "]", ",", " ", "\"", "(", "s", "s", ")",
      "\"", ")", "]">>

\* The Debug text that disable takes for "already disabled".
AlreadyDisabledText ==
    <<"[", "A", "r", "r", "a", "y", "(", "[", "]", ",", " ", "\"", "(", "s", "s", "s",
      ")", "\"", ")", "]">>

enable(self, outcome) ==
    LET message == append_items(dbus_message("EnableUnitFiles"),
                       <<Array(<<Str(self.name)>>, <<"s">>), Bool(FALSE), Bool(TRUE)>>)
        c == dbus_connect(message, outcome)
        result ==
            CASE c.kind = "panic" -> Panic
              [] c.kind = "Ok" ->
                    IF DebugItems(c.items) = AlreadyEnabledText
                    THEN Ok(<<self.name,
                              <<" ", "a", "l", "r", "e", "a", "d", "y", " ",
                                "e", "n", "a", "b", "l", "e", "d">>>>)
                    ELSE Ok(<<self.name,
                              <<" ", "h", "a", "s", " ", "b", "e", "e", "n", " ",
                                "e", "n", "a", "b", "l", "e", "d">>>>)
              [] c.kind = "Err" ->
                    Err(<<<<"E", "r", "r", "o", "r", " ", "e", "n", "a", "b", "l",
                            "i", "n", "g", " ">>,
                          self.name, <<":", "\n">>, ErrorText(c.err)>>)
    IN Call("enable", self, c, outcome, <<>>, result)

disable(self, outcome) ==
    LET message == append_items(dbus_message("DisableUnitFiles"),
                       <<Array(<<Str(self.name)>>, <<"s">>), Bool(FALSE)>>)
        c == dbus_connect(message, outcome)
        result ==
            CASE c.kind = "panic" -> Panic
              [] c.kind = "Ok" ->
                    IF DebugItems(c.items) = AlreadyDisabledText
                    THEN Ok(<<self.name,
                              <<" ", "i", "s", " ", "a", "l", "r", "e", "a", "d", "y",
                                " ", "d", "i", "s", "a", "b", "l", "e", "d">>>>)
                    ELSE Ok(<<self.name,
                              <<" ", "h", "a", "s", " ", "b", "e", "e", "n", " ",
                                "d", "i", "s", "a", "b", "l", "e", "d">>>>)
              [] c.kind = "Err" ->
                    Err(<<<<"E", "r", "r", "o", "r", " ", "d", "i", "s", "a", "b",
                            "l", "i", "n", "g", " ">>,
                          self.name, <<":", "\n">>, ErrorText(c.err)>>)
    IN Call("disable", self, c, outcome, <<>>, result)

\* The mode argument of StartUnit and StopUnit.
JobMode == <<"f", "a", "i", "l">>

start(self, outcome) ==
    LET message == append_items(dbus_message("StartUnit"),
                                <<Str(self.name), Str(JobMode)>>)
        c == dbus_connect(message, outcome)
        result ==
            CASE c.kind = "panic" -> Panic
              [] c.kind = "Err" ->
                    Err(<<self.name,
                          <<" ", "f", "a", "i", "l", "e", "d", " ", "t", "o", " ",
                            "s", "t", "a", "r", "t", ":", "\n">>,
                          ErrorText(c.err)>>)
              [] c.kind = "Ok" ->
                    Ok(<<self.name,
                         <<" ", "s", "u", "c", "c", "e", "s", "s", "f", "u", "l", "l",
                           "y", " ", "s", "t", "a", "r", "t", "e", "d">>>>)
    IN Call("start", self, c, outcome, <<>>, result)

stop(self, outcome) ==
    LET message == append_items(dbus_message("StopUnit"),
                                <<Str(self.name), Str(JobMode)>>)
        c == dbus_connect(message, outcome)
        result ==
            CASE c.kind = "panic" -> Panic
              [] c.kind = "Err" ->
                    Err(<<self.name,
                          <<" ", "f", "a", "i", "l", "e", "d", " ", "t", "o", " ",
                            "s", "t", "o", "p", ":", "\n">>,
                          ErrorText(c.err)>>)
              [] c.kind = "Ok" ->
                    Ok(<<self.name,
                         <<" ", "s", "u", "c", "c", "e", "s", "s", "f", "u", "l", "l",
                           "y", " ", "s", "t", "o", "p", "p", "e", "d">>>>)
    IN Call("stop", self, c, outcome, <<>>, result)

\* A services filter that lets template units through.
is_togglable_service_with_templates(x) ==
    /\ x.utype = "Service"
    /\ (x.state = "Enabled" \/ x.state = "Disabled")

\* collect_togglable_*: the closures of the three filters.
is_togglable_service(x) ==
    /\ x.utype = "Service"
    /\ (x.state = "Enabled" \/ x.state = "Disabled")
    /\ ~ends_with(x.path, <<"@", ".", "s", "e", "r", "v", "i", "c", "e">>)

is_togglable_socket(x) ==
    /\ x.utype = "Socket"
    /\ (x.state = "Enabled" \/ x.state = "Disabled")
    /\ ~ends_with(x.path, <<"@", ".", "s", "o", "c", "k", "e", "t">>)

is_togglable_timer(x) ==
    /\ x.utype = "Timer"
    /\ (x.state = "Enabled" \/ x.state = "Disabled")
    /\ ~ends_with(x.path, <<"@", ".", "t", "i", "m", "e", "r">>)

\* units.iter().filter(..).cloned().collect()
collect_togglable_services(units) == SelectSeq(units, is_togglable_service)

collect_togglable_sockets(units) == SelectSeq(units, is_togglable_socket)

collect_togglable_timers(units) == SelectSeq(units, is_togglable_timer)

(***************************************************************************)
(* The environment: the unit files the daemon knows and what it replies.   *)
(***************************************************************************)

\* The most unit files the daemon's table holds.
MaxUnits == 2

\* Unit file paths: a lower-case and an upper-case name, and an escaped name
\* (systemd-escape writes '-' as \x2d) with a backslash.
PathPool ==
    {<<"/", "u", "/", "a", ".", "s", "e", "r", "v", "i", "c", "e">>,
     <<"/", "u", "/", "B", ".", "t", "i", "m", "e", "r">>,
     <<"/", "u", "/", "m", "\\", "x", "2", "d", ".", "m", "o", "u", "n", "t">>}

\* State strings of ListUnitFiles.
StateTexts ==
    {<<"e", "n", "a", "b", "l", "e", "d">>,
     <<"d", "i", "s", "a", "b", "l", "e", "d">>}

\* One change of EnableUnitFiles and DisableUnitFiles: (type, file, destination).
Change ==
    Struct(<<Str(<<"s", "y", "m", "l", "i", "n", "k">>), Str(<<"/", "x">>),
             Str(<<"/", "y">>)>>)

\* Replies to EnableUnitFiles and DisableUnitFiles: the two shapes the code
\* looks for, and replies that differ from them in one place.
ChangeReplies ==
    {<<Bool(TRUE), Array(<<>>, SigSSS)>>,
     <<Bool(TRUE), Array(<<Change>>, SigSSS)>>,
     <<Bool(FALSE), Array(<<>>, SigSSS)>>,
     <<Array(<<>>, SigSSS)>>,
     <<Array(<<Change>>, SigSSS)>>,
     <<>>}

\* Replies to StartUnit and StopUnit: the job's object path, or nothing.
JobReplies == {<<ObjectPath(<<"/", "j", "o", "b", "/", "1">>)>>, <<>>}

\* What the bus may answer to ListUnitFiles: a failure, or the table in some order.
ListOutcomes ==
    Failures \cup {Reply(ListReply(daemon, paths)) : paths \in Orders(DOMAIN daemon)}

ChangeOutcomes == Failures \cup {Reply(items) : items \in ChangeReplies}

JobOutcomes == Failures \cup {Reply(items) : items \in JobReplies}

(***************************************************************************)
(* The state machine: the daemon's table changes under the caller; the     *)
(* caller lists the unit files, keeps one unit and calls operations on it. *)
(* A panic ends the program.                                               *)
(***************************************************************************)

Init ==
    /\ daemon = <<>>
    /\ held = NoUnit
    /\ status = "running"
    /\ input = <<>>
    /\ last = NoCall

\* The daemon installs a unit file or changes its state.
DaemonSet(path, state) ==
    /\ status = "running"
    /\ Cardinality(DOMAIN daemon \cup {path}) <= MaxUnits
    /\ path \in DOMAIN daemon => daemon[path] # state
    /\ daemon' = [q \in DOMAIN daemon \cup {path} |->
                    IF q = path THEN state ELSE daemon[q]]
    /\ last' = NoCall
    /\ UNCHANGED <<held, status, input>>

\* The daemon loses a unit file.
DaemonRemove(path) ==
    /\ status = "running"
    /\ path \in DOMAIN daemon
    /\ daemon' = [q \in DOMAIN daemon \ {path} |-> daemon[q]]
    /\ last' = NoCall
    /\ UNCHANGED <<held, status, input>>

\* The end of a call: its record, and the end of the program if it panicked.
Returns(call) ==
    /\ last' = call
    /\ status' = IF call.result.kind = "panic" THEN "aborted" ELSE "running"
    /\ UNCHANGED <<daemon, held, input>>

ListUnitFiles ==
    /\ status = "running"
    /\ \E outcome \in ListOutcomes : \E call \in list_unit_files(outcome) : Returns(call)

\* The caller keeps a unit of the vector list_unit_files has just returned.
PickUnit(i) ==
    /\ status = "running"
    /\ last.op = "list_unit_files"
    /\ last.result.kind = "Vec"
    /\ i \in 1..Len(last.result.units)
    /\ held' = last.result.units[i]
    /\ UNCHANGED <<daemon, status, input, last>>

IsEnabled ==
    /\ status = "running"
    /\ held # NoUnit
    /\ \E outcome \in ListOutcomes : \E call \in is_enabled(held, outcome) : Returns(call)

Enable ==
    /\ status = "running"
    /\ held # NoUnit
    /\ \E outcome \in ChangeOutcomes : Returns(enable(held, outcome))

Disable ==
    /\ status = "running"
    /\ held # NoUnit
    /\ \E outcome \in ChangeOutcomes : Returns(disable(held, outcome))

Start ==
    /\ status = "running"
    /\ held # NoUnit
    /\ \E outcome \in JobOutcomes : Returns(start(held, outcome))

Stop ==
    /\ status = "running"
    /\ held # NoUnit
    /\ \E outcome \in JobOutcomes : Returns(stop(held, outcome))

Next ==
    \/ \E path \in PathPool : \E state \in StateTexts : DaemonSet(path, state)
    \/ \E path \in PathPool : DaemonRemove(path)
    \/ ListUnitFiles
    \/ \E i \in 1..MaxUnits : PickUnit(i)
    \/ IsEnabled
    \/ Enable
    \/ Disable
    \/ Start
    \/ Stop

Spec == Init /\ [][Next]_vars

(***************************************************************************)
(* The filters on their own: any sequence of units is an input.            *)
(***************************************************************************)

\* The longest unit sequence handed to a filter.
MaxFilterLen == 3

\* Units of every type the filters look for, togglable and not, template and
\* not, and one whose type is not that of its path.
UnitPool ==
    {SystemdUnit(<<"a", ".", "s", "e", "r", "v", "i", "c", "e">>,
                 <<"/", "a", ".", "s", "e", "r", "v", "i", "c", "e">>, "Enabled", "Service"),
     SystemdUnit(<<"b", "@", ".", "s", "e", "r", "v", "i", "c", "e">>,
                 <<"/", "b", "@", ".", "s", "e", "r", "v", "i", "c", "e">>, "Enabled", "Service"),
     SystemdUnit(<<"c", ".", "s", "e", "r", "v", "i", "c", "e">>,
                 <<"/", "c", ".", "s", "e", "r", "v", "i", "c", "e">>, "Static", "Service"),
     SystemdUnit(<<"d", ".", "s", "o", "c", "k", "e", "t">>,
                 <<"/", "d", ".", "s", "o", "c", "k", "e", "t">>, "Disabled", "Socket"),
     SystemdUnit(<<"e", "@", ".", "s", "o", "c", "k", "e", "t">>,
                 <<"/", "e", "@", ".", "s", "o", "c", "k", "e", "t">>, "Disabled", "Socket"),
     SystemdUnit(<<"f", ".", "t", "i", "m", "e", "r">>,
                 <<"/", "f", ".", "t", "i", "m", "e", "r">>, "Enabled", "Timer"),
     SystemdUnit(<<"g", "@", ".", "t", "i", "m", "e", "r">>,
                 <<"/", "g", "@", ".", "t", "i", "m", "e", "r">>, "Disabled", "Timer"),
     SystemdUnit(<<"h", "@", ".", "s", "o", "c", "k", "e", "t">>,
                 <<"/", "h", "@", ".", "s", "o", "c", "k", "e", "t">>, "Enabled", "Service"),
     SystemdUnit(<<"i", ".", "t", "i", "m", "e", "r">>,
                 <<"/", "i", ".", "t", "i", "m", "e", "r">>, "Masked", "Timer"),
     SystemdUnit(<<"j", ".", "s", "o", "c", "k", "e", "t">>,
                 <<"/", "j", ".", "s", "o", "c", "k", "e", "t">>, "Unknown", "Socket")}

UnitSeqs == UNION {[1..n -> UnitPool] : n \in 0..MaxFilterLen}

InitFilter ==
    /\ daemon = <<>>
    /\ held = NoUnit
    /\ status = "running"
    /\ input \in UnitSeqs
    /\ last = NoCall

\* The return of a pure function applied to input.
Applied(op, result) ==
    /\ last' = [NoCall EXCEPT !.op = op, !.result = result]
    /\ status' = IF result.kind = "panic" THEN "aborted" ELSE "running"
    /\ UNCHANGED <<daemon, held, input>>

CollectTogglableServices ==
    Applied("collect_togglable_services", Vec(collect_togglable_services(input)))

CollectTogglableSockets ==
    Applied("collect_togglable_sockets", Vec(collect_togglable_sockets(input)))

CollectTogglableTimers ==
    Applied("collect_togglable_timers", Vec(collect_togglable_timers(input)))

NextFilter ==
    \/ CollectTogglableServices
    \/ CollectTogglableSockets
    \/ CollectTogglableTimers

SpecFilter == InitFilter /\ [][NextFilter]_vars

(***************************************************************************)
(* The decoder on its own: the Debug text of a listing reply, whole or cut *)
(* short, is the input.                                                    *)
(***************************************************************************)

\* The tables of at most MaxUnits unit files.
Tables ==
    UNION {[S -> StateTexts] : S \in {T \in SUBSET PathPool : Cardinality(T) <= MaxUnits}}

\* The texts of the replies of a table: those of its orders.
TextsOf(table) == {DebugItems(ListReply(table, paths)) : paths \in Orders(DOMAIN table)}

WellFormedTexts == UNION {TextsOf(table) : table \in Tables}

\* A reply text and everything a cut of it leaves.
DecodeInputs == UNION {{Take(text, n) : n \in 0..Len(text)} : text \in WellFormedTexts}

InitDecode ==
    /\ daemon = <<>>
    /\ held = NoUnit
    /\ status = "running"
    /\ input \in DecodeInputs
    /\ last = NoCall

ParseMessage ==
    /\ status = "running"
    /\ \E p \in parse_message(input) :
          Applied("parse_message", IF p.kind = "panic" THEN Panic ELSE Vec(p.units))

NextDecode == ParseMessage

SpecDecode == InitDecode /\ [][NextDecode]_vars

(***************************************************************************)
(* The claims.                                                             *)
(***************************************************************************)

\* Whether out is a rearrangement of in: the same units, each as often.
IsPermutation(out, in) ==
    /\ Len(out) = Len(in)
    /\ \E f \in Orders(1..Len(in)) : \A i \in 1..Len(in) : out[i] = in[f[i]]

\* The k-th smallest of a set of numbers.
Nth(S, k) == CHOOSE i \in S : Cardinality({j \in S : j < i}) = k - 1

\* Whether out is in, in order, cut down to exactly the places in kept.
IsExactSubSequence(out, in, kept) ==
    /\ Len(out) = Cardinality(kept)
    /\ \A k \in 1..Len(out) : out[k] = in[Nth(kept, k)]

HasSuffix(s, suffix) == \E n \in 0..Len(s) : SubSeq(s, n + 1, Len(s)) = suffix

\* Whether text occurs in s.
Contains(s, text) ==
    \E n \in 1..(Len(s) - Len(text) + 1) : SubSeq(s, n, n + Len(text) - 1) = text

Togglable(u, type, suffix) ==
    /\ u.utype = type
    /\ u.state \in {"Enabled", "Disabled"}
    /\ ~HasSuffix(u.path, suffix)

TogglableService(u) ==
    Togglable(u, "Service", <<"@", ".", "s", "e", "r", "v", "i", "c", "e">>)

TogglableSocket(u) == Togglable(u, "Socket", <<"@", ".", "s", "o", "c", "k", "e", "t">>)

TogglableTimer(u) == Togglable(u, "Timer", <<"@", ".", "t", "i", "m", "e", "r">>)

\* C1: each filter returns exactly the sub-sequence of its input, in the
\* input's order and with nothing added, dropped or repeated, of the units of
\* its type whose state is Enabled or Disabled and whose path does not end
\* with the type's template suffix.
C1_FilterIsExactSubSequence ==
    /\ last.op = "collect_togglable_services"
          => IsExactSubSequence(last.result.units, input,
                                {i \in 1..Len(input) : TogglableService(input[i])})
    /\ last.op = "collect_togglable_sockets"
          => IsExactSubSequence(last.result.units, input,
                                {i \in 1..Len(input) : TogglableSocket(input[i])})
    /\ last.op = "collect_togglable_timers"
          => IsExactSubSequence(last.result.units, input,
                                {i \in 1..Len(input) : TogglableTimer(input[i])})

\* C1's case: a template service between two different togglable services
\* is dropped and the two are returned in their order.
C1_Witness ==
    /\ last.op = "collect_togglable_services"
    /\ Len(input) = 3
    /\ TogglableService(input[1])
    /\ input[2].utype = "Service"
    /\ input[2].state = "Enabled"
    /\ HasSuffix(input[2].path, <<"@", ".", "s", "e", "r", "v", "i", "c", "e">>)
    /\ TogglableService(input[3])
    /\ input[1] # input[3]
    /\ last.result.units = <<input[1], input[3]>>

AlreadyEnabledMessage(name) ==
    <<name, <<" ", "a", "l", "r", "e", "a", "d", "y", " ", "e", "n", "a", "b", "l", "e", "d">>>>

HasBeenEnabledMessage(name) ==
    <<name,
      <<" ", "h", "a", "s", " ", "b", "e", "e", "n", " ", "e", "n", "a", "b", "l", "e", "d">>>>

\* The reply item-sequence [Bool(true), empty array of changes].
IsAlreadyEnabledReply(items) ==
    /\ Len(items) = 2
    /\ items[1] = Bool(TRUE)
    /\ items[2] = Array(<<>>, SigSSS)

\* C2: on a reply to EnableUnitFiles, enable returns Ok("<name> already
\* enabled") if and only if the reply's items are exactly Bool(true) and an
\* empty array of changes, and Ok("<name> has been enabled") on any other
\* reply; it never returns Err on a reply.
C2_EnableTellsReplyShapes ==
    last.op = "enable" /\ last.outcome.kind = "ok"
        => /\ last.result.kind = "Ok"
           /\ last.result.msg =
                 IF IsAlreadyEnabledReply(last.outcome.items)
                 THEN AlreadyEnabledMessage(last.self.name)
                 ELSE HasBeenEnabledMessage(last.self.name)

\* C2's case: enable has returned on the reply [Bool(true), Array([])].
C2_Witness ==
    /\ last.op = "enable"
    /\ last.outcome = Reply(<<Bool(TRUE), Array(<<>>, SigSSS)>>)
    /\ last.result = Ok(AlreadyEnabledMessage(held.name))

AlreadyDisabledMessage(name) ==
    <<name,
      <<" ", "i", "s", " ", "a", "l", "r", "e", "a", "d", "y", " ", "d", "i", "s", "a", "b",
        "l", "e", "d">>>>

HasBeenDisabledMessage(name) ==
    <<name,
      <<" ", "h", "a", "s", " ", "b", "e", "e", "n", " ", "d", "i", "s", "a", "b", "l", "e",
        "d">>>>

\* C3: on a reply to DisableUnitFiles, disable returns Ok("<name> is already
\* disabled") if and only if the reply's items are exactly one empty array
\* of changes, and Ok("<name> has been disabled") on any other reply; it
\* never returns Err on a reply.
C3_DisableTellsReplyShapes ==
    last.op = "disable" /\ last.outcome.kind = "ok"
        => /\ last.result.kind = "Ok"
           /\ last.result.msg =
                 IF last.outcome.items = <<Array(<<>>, SigSSS)>>
                 THEN AlreadyDisabledMessage(last.self.name)
                 ELSE HasBeenDisabledMessage(last.self.name)

\* C3's case: disable has returned on the reply [Array([])].
C3_Witness ==
    /\ last.op = "disable"
    /\ last.outcome = Reply(<<Array(<<>>, SigSSS)>>)
    /\ last.result = Ok(AlreadyDisabledMessage(held.name))

\* C4: when is_enabled returns, the listing it decoded is a reply of the
\* daemon's table as it is during the call, and the result is true if and
\* only if that listing holds a unit with the path of the unit it was called
\* on and the state Enabled (so it is false when no unit has that path),
\* whatever state the unit it was called on recorded.
C4_IsEnabledFollowsDaemon ==
    last.op = "is_enabled" /\ last.result.kind = "bool"
        => /\ \E paths \in Orders(DOMAIN daemon) :
                 last.outcome = Reply(ListReply(daemon, paths))
           /\ last.result.b <=>
                 \E i \in 1..Len(last.listing) :
                    /\ last.listing[i].path = last.self.path
                    /\ last.listing[i].state = "Enabled"

\* C4's case: the unit was listed as not enabled, the daemon has enabled it
\* since, and is_enabled has answered true.
C4_Witness ==
    /\ last.op = "is_enabled"
    /\ last.result.kind = "bool"
    /\ last.result.b
    /\ last.self = held
    /\ held.state = "Disabled"

\* C5: every operation that the bus fails (no connection, no reply within the
\* timeout, an error reply) returns an error value to its caller, and no
\* operation ends the program.
C5_FailuresAreReturned ==
    last.op # "none"
        => /\ status = "running"
           /\ last.result.kind # "panic"
           /\ last.outcome.kind # "ok" => last.result.kind = "Err"

\* C6: on a text that is not the text of a listing reply (here a reply cut
\* short, yet long enough for the framing to be stripped), the decoder
\* reports an error: it returns no unit list.
C6_MalformedReplyIsReported ==
    last.op = "parse_message" /\ input \notin WellFormedTexts /\ Len(input) >= FramingLen
        => last.result.kind # "Vec"

\* Whether no unit has a name that, lower-cased, is less than that of a unit before it.
IsSortedByLowerName(units) ==
    \A i \in 1..(Len(units) - 1) :
        LET a == to_lowercase(units[i].name)
            b == to_lowercase(units[i + 1].name)
        IN a = b \/ StrLess(a, b)

\* C7: the unit sequence the decoder returns is in non-decreasing order of
\* lower-cased name and is a rearrangement of the units decoded from the
\* reply: the sort adds and removes nothing.
C7_SortedPermutation ==
    last.op = "parse_message" /\ last.result.kind = "Vec"
        => /\ IsSortedByLowerName(last.result.units)
           /\ \E m \in StripFraming(input) :
                 /\ m.kind = "text"
                 /\ IsPermutation(last.result.units, DecodeTokens(Split(m.text, ",")))

\* C7's case: the decoder has returned two units in another order than the
\* reply's, and the case of the names decides the order: the second name is
\* less than the first by character codes.
C7_Witness ==
    /\ last.op = "parse_message"
    /\ last.result.kind = "Vec"
    /\ input \in WellFormedTexts
    /\ Len(last.result.units) = 2
    /\ StrLess(last.result.units[2].name, last.result.units[1].name)
    /\ last.result.units # DecodeTokens(Split(Take(Skip(input, PrefixLen),
                                                     Len(input) - FramingLen), ","))

\* The method each operation calls.
MethodOf(op) ==
    CASE op = "enable" -> "EnableUnitFiles"
      [] op = "disable" -> "DisableUnitFiles"
      [] op = "start" -> "StartUnit"
      [] op = "stop" -> "StopUnit"
      [] op \in {"is_enabled", "list_unit_files"} -> "ListUnitFiles"

\* Whether the call sent exactly one message, a call of its operation's method.
SentOneCall(call) ==
    /\ Len(call.sent) = 1
    /\ call.sent[1].message.method = MethodOf(call.op)

\* C8, as claimed: every invocation of an operation sends exactly one method
\* call, that of its operation, whatever the outcome.
C8_ExactlyOneCallAlways == last.op # "none" => SentOneCall(last)

\* C8, amended: an invocation whose bus connection cannot be opened sends no
\* call; every other invocation sends exactly one method call, that of its
\* operation, also after an error reply or a timeout.
C8_OneCallOnceConnected ==
    last.op # "none"
        => IF last.outcome.kind = "noconn" THEN last.sent = <<>> ELSE SentOneCall(last)

\* C8's case: an operation has returned after an error reply or a timeout,
\* having sent its one call.
C8_Witness ==
    /\ last.op \in {"enable", "disable", "start", "stop"}
    /\ last.outcome.kind = "err"
    /\ last.result.kind = "Err"
    /\ SentOneCall(last)

\* The verb of the error message of start and stop.
FailedVerb(op) ==
    IF op = "start"
    THEN <<"f", "a", "i", "l", "e", "d", " ", "t", "o", " ", "s", "t", "a", "r", "t">>
    ELSE <<"f", "a", "i", "l", "e", "d", " ", "t", "o", " ", "s", "t", "o", "p">>

\* C9: start and stop return a success message if and only if the daemon
\* replied, whatever the reply holds, and otherwise an error message holding
\* the unit's name, "failed to start" or "failed to stop", and the error's
\* text; the call carries the unit's name and the mode "fail".
C9_StartStopOutcome ==
    last.op \in {"start", "stop"}
        => /\ last.result.kind = "Ok" <=> last.outcome.kind = "ok"
           /\ last.outcome.kind # "ok"
                 => /\ last.result.kind = "Err"
                    /\ \E i \in 1..Len(last.result.msg) :
                          last.result.msg[i] = last.self.name
                    /\ \E i \in 1..Len(last.result.msg) :
                          Contains(last.result.msg[i], FailedVerb(last.op))
                    /\ \E i \in 1..Len(last.result.msg) :
                          last.result.msg[i] = last.outcome.err.message
           /\ \A i \in 1..Len(last.sent) :
                 last.sent[i].message.args = <<Str(last.self.name), Str(JobMode)>>

\* C10: list_unit_files returns one unit for each (path, state) pair of the
\* reply, with the pair's path as its path and the last component of that
\* path, not empty, as its name; and an operation leaves the unit it is
\* called on as it was.
C10_UnitsMirrorReply ==
    /\ last.op = "list_unit_files" /\ last.result.kind = "Vec"
          => LET pairs == last.outcome.items[1].v
                 units == last.result.units
             IN /\ Len(units) = Len(pairs)
                /\ \A i \in 1..Len(units) :
                      units[i].name # <<>> /\ units[i].name = file_name(units[i].path)
                /\ \E f \in Orders(1..Len(pairs)) :
                      \A i \in 1..Len(pairs) : units[i].path = pairs[f[i]].v[1].s
    /\ last.op \in {"is_enabled", "enable", "disable", "start", "stop"}
          => held = last.self

====
